---------------------------- MODULE Spec2Model ----------------------------
(***************************************************************************)
(* Two-helper aggregation service: the byte/int secret sharing used by the *)
(* browser simulator, the private-join pipeline exercised by the           *)
(* simulator's tests, and the driver main of dpf_aggregate_partial_report. *)
(*                                                                         *)
(* Library packages (secretshare, conversion, conversionaggregator,        *)
(* dpfaggregator, browsersimulator's non-test code) are modelled from      *)
(* their documented behaviour; the tests and the driver are modelled from  *)
(* their code.  Cryptography is symbolic: a group element g^x of the       *)
(* prime-order group is represented by its exponent x modulo GroupOrder.   *)
(***************************************************************************)
EXTENDS Integers, Sequences, FiniteSets, TLC

(***************************************************************************)
(* Bounds of the model.                                                    *)
(***************************************************************************)
\* Width of a byte in the model (8 in the program).
ByteBits == 1
\* Longest byte string given to SplitIntoByteShares.
MaxLen == 2

Range(s) == {s[i] : i \in 1 .. Len(s)}

RECURSIVE Pow2(_)
Pow2(n) == IF n = 0 THEN 1 ELSE 2 * Pow2(n - 1)

Byte == 0 .. (Pow2(ByteBits) - 1)

\* All byte strings of length at most n.
ByteStrings(n) == UNION { [1 .. l -> Byte] : l \in 0 .. n }

(***************************************************************************)
(* secretshare: XOR sharing of byte strings.                               *)
(***************************************************************************)
RECURSIVE XorBits(_, _, _)
XorBits(x, y, n) ==
    IF n = 0 THEN 0
    ELSE (((x % 2) + (y % 2)) % 2) + 2 * XorBits(x \div 2, y \div 2, n - 1)

XorByte(x, y) == XorBits(x, y, ByteBits)

XorBytes(s, t) == [i \in 1 .. Len(s) |-> XorByte(s[i], t[i])]

\* SplitIntoByteShares(data) with the random bytes drawn: share1 is the
\* random string (of len(data)), share2 = data XOR share1.
SplitIntoByteShares(data, random) == <<random, XorBytes(data, random)>>

\* A Go (value, error) result.
Ok(v) == [err |-> "nil", val |-> v]

Err(e) == [err |-> e, val |-> <<>>]

Unset == [err |-> "unset", val |-> <<>>]

\* CombineByteShares: an error when the lengths differ, else the XOR.
CombineByteShares(share1, share2) ==
    IF Len(share1) # Len(share2) THEN Err("LengthMismatch")
    ELSE Ok(XorBytes(share1, share2))

(***************************************************************************)
(* State.                                                                  *)
(***************************************************************************)
VARIABLES
    \* TestSplitIntoByteShares
    a,          \* the input byte string
    split1,     \* <<split11, split12>> of the first call, <<>> before it
    split2,     \* <<split21, split22>> of the second call
    identical,  \* the test's "got identical ones" error fired
    combine,    \* result of CombineByteShares(split11, split12)
    tpc,        \* position in the test
    \* main of dpf_aggregate_partial_report
    flags,          \* the parsed command line
    helperPrivKeys, \* result of ReadPrivateKeyCollection
    loaded,         \* what ReadExpandParameters / ReadDPFParameters / ReadPrefixes returned
    expandParams,   \* the local variable expandParams
    pipelineParams, \* the AggregatePartialReportParams handed to AggregatePartialReport
    steps,          \* the library calls made so far, in order
    failed,         \* the call whose error reached log.Exit, "none" before
    histogram,      \* "absent" | "written": the output at partial_histogram_uri
    mpc,            \* position in main
    \* two runs of the aggregation over the same DPF key halves
    keyHalves,      \* the DPF key halves this helper holds, one per report
    prefixes,       \* the prefixes to expand
    directAcc,      \* accumulator of the direct combine (one whole vector)
    directIn,       \* reports already added to directAcc
    segmentAcc,     \* accumulators of the segmented combine, by segment index
    segmentIn,      \* reports already added to segmentAcc
    \* the browser simulator and the two helpers' pipelines under test
    conversions,    \* the raw conversions given to the pipeline (a list)
    serverInfo,     \* per helper: ElGamal private key, secret, standard private key
    entropy,        \* what the random source can return in this run
    splitIn,        \* indices of the conversions already split
    ePr,            \* per helper: the encrypted partial reports (ePr1, ePr2)
    pr,             \* per helper: the decrypted partial reports (pr1, pr2)
    idKey,          \* per helper: the exponentiated keys it produced (idKey1, idKey2)
    rekeyed,        \* per helper: idKeyShare and aggData, one record per report
    aggIn,          \* per helper: report IDs already added to pAgg
    pAgg,           \* per helper: the partial aggregation, by aggregation ID
    got,            \* result of MergeAggregation, Unset before
    merged,         \* output of mergeReportFn per joined report ID
    origin,         \* history: the index of the conversion a report ID was given to
    perr            \* error that failed the pipeline, "nil" if none

shareVars == <<a, split1, split2, identical, combine, tpc>>

mainVars == <<flags, helperPrivKeys, loaded, expandParams, pipelineParams,
              steps, failed, histogram, mpc>>

combineVars == <<keyHalves, prefixes, directAcc, directIn, segmentAcc, segmentIn>>

pipeVars == <<conversions, serverInfo, entropy, splitIn, ePr, pr, idKey, rekeyed,
              aggIn, pAgg, got, merged, origin, perr>>

vars == <<shareVars, mainVars, combineVars, pipeVars>>

\* What each part of the model leaves alone.
notShareVars == <<mainVars, combineVars, pipeVars>>

notMainVars == <<shareVars, combineVars, pipeVars>>

notCombineVars == <<shareVars, mainVars, pipeVars>>

notPipeVars == <<shareVars, mainVars, combineVars>>

(***************************************************************************)
(* TestSplitIntoByteShares.                                                *)
(***************************************************************************)
ShareStart ==
    /\ a \in ByteStrings(MaxLen)
    /\ split1 = <<>>
    /\ split2 = <<>>
    /\ identical = FALSE
    /\ combine = Unset
    /\ tpc = "split1"

ShareIdle ==
    /\ a = <<>>
    /\ split1 = <<>>
    /\ split2 = <<>>
    /\ identical = FALSE
    /\ combine = Unset
    /\ tpc = "idle"

\* split11, split12, err := SplitIntoByteShares([]byte(a)); t.Fatal on err
TestSplit1 ==
    /\ tpc = "split1"
    /\ \/ \E random \in [1 .. Len(a) -> Byte] :
            /\ split1' = SplitIntoByteShares(a, random)
            /\ tpc' = "split2"
       \/ /\ tpc' = "fatal"
          /\ UNCHANGED split1
    /\ UNCHANGED <<a, split2, identical, combine, notShareVars>>

\* split21, split22, err := SplitIntoByteShares([]byte(a)); t.Fatal on err
TestSplit2Other ==
    /\ tpc = "split2"
    /\ \/ \E random \in [1 .. Len(a) -> Byte], other \in ByteStrings(MaxLen) :
            /\ Len(other) = Len(a)
            /\ split2' = SplitIntoByteShares(other, random)
            /\ tpc' = "compare"
       \/ /\ tpc' = "fatal"
          /\ UNCHANGED split2
    /\ UNCHANGED <<a, split1, identical, combine, notShareVars>>

TestSplit2 ==
    /\ tpc = "split2"
    /\ \/ \E random \in [1 .. Len(a) -> Byte] :
            /\ split2' = SplitIntoByteShares(a, random)
            /\ tpc' = "compare"
       \/ /\ tpc' = "fatal"
          /\ UNCHANGED split2
    /\ UNCHANGED <<a, split1, identical, combine, notShareVars>>

\* if cmp.Equal(split11, split21) || ... { t.Errorf(...) }  (the test goes on)
TestCompare ==
    /\ tpc = "compare"
    /\ identical' = (\/ split1[1] = split2[1] \/ split1[1] = split2[2]
                     \/ split1[2] = split2[1] \/ split1[2] = split2[2])
    /\ tpc' = "combine"
    /\ UNCHANGED <<a, split1, split2, combine, notShareVars>>

\* combine, err := secretshare.CombineByteShares(split11, split12)
TestCombineCrossed ==
    /\ tpc = "combine"
    /\ LET c == CombineByteShares(split1[1], split2[2]) IN
         /\ combine' = c
         /\ tpc' = IF c.err # "nil" THEN "fatal" ELSE "done"
    /\ UNCHANGED <<a, split1, split2, identical, notShareVars>>

TestCombine ==
    /\ tpc = "combine"
    /\ LET c == CombineByteShares(split1[1], split1[2]) IN
         /\ combine' = c
         /\ tpc' = IF c.err # "nil" THEN "fatal" ELSE "done"
    /\ UNCHANGED <<a, split1, split2, identical, notShareVars>>


(***************************************************************************)
(* main of dpf_aggregate_partial_report.                                   *)
(***************************************************************************)
\* Largest --key_bit_size tried.
MaxKeyBitSize == 2

\* Sum parameters as the list of the hierarchy levels' log domain sizes.
SumParameterFiles == {<<>>, <<1>>, <<2, 3>>}

\* Hierarchical prefixes: per level, the set of prefixes to expand.
PrefixFiles == {<<>>, <<{}, {0}>>}

\* Contents an expand parameter file can have.
ExpandParameterFiles ==
    [Levels : {<<0>>, <<0, 1>>}, Prefixes : PrefixFiles,
     PreviousLevel : {-1}, SumParameters : SumParameterFiles]

NoParams == [Levels |-> <<>>, Prefixes |-> <<>>, PreviousLevel |-> -1,
             SumParameters |-> <<>>]

NoLoaded == [expand |-> NoParams, sum |-> <<>>, prefixes |-> <<>>]

NoPipeline == [built |-> FALSE]

\* dpfaggregator.ConvertOldParamsToExpandParameter: the legacy sum parameters
\* and prefixes in the shape of expansion parameters.
ConvertOldParamsToExpandParameter(sumParams, prefixLevels) ==
    [Levels |-> [i \in 1 .. Len(prefixLevels) |-> i - 1], Prefixes |-> prefixLevels,
     PreviousLevel |-> -1, SumParameters |-> sumParams]

\* dpfaggregator.GetDefaultDPFParameters: one hierarchy level for every
\* prefix length of the bucket ID.
GetDefaultDPFParameters(keyBitSize) == [i \in 1 .. keyBitSize |-> i]

\* --segment_length when the flag is not given.
DefaultSegmentLength == 32768

\* --l1_sensitivity when the flag is not given.
DefaultL1Sensitivity == 65536

DefaultFlags ==
    [expandParametersURI |-> "", keyBitSize |-> 1, directCombine |-> TRUE,
     segmentLength |-> DefaultSegmentLength, epsilon |-> 0,
     l1Sensitivity |-> DefaultL1Sensitivity]

MainStart ==
    /\ flags \in [expandParametersURI : {"", "gs://expand_params"},
                  keyBitSize : 1 .. MaxKeyBitSize,
                  directCombine : BOOLEAN,
                  segmentLength : {DefaultSegmentLength},
                  epsilon : {0},
                  l1Sensitivity : {DefaultL1Sensitivity}]
    /\ helperPrivKeys = "nil"
    /\ loaded = NoLoaded
    /\ expandParams = NoParams
    /\ pipelineParams = NoPipeline
    /\ steps = <<>>
    /\ failed = "none"
    /\ histogram = "absent"
    /\ mpc = "ReadPrivateKeyCollection"

\* main is not running; the flags are as given.
MainNotStarted ==
    /\ helperPrivKeys = "nil"
    /\ loaded = NoLoaded
    /\ expandParams = NoParams
    /\ pipelineParams = NoPipeline
    /\ steps = <<>>
    /\ failed = "none"
    /\ histogram = "absent"
    /\ mpc = "idle"

MainIdle ==
    /\ flags = DefaultFlags
    /\ helperPrivKeys = "nil"
    /\ loaded = NoLoaded
    /\ expandParams = NoParams
    /\ pipelineParams = NoPipeline
    /\ steps = <<>>
    /\ failed = "none"
    /\ histogram = "absent"
    /\ mpc = "idle"

\* if err != nil { log.Exit(ctx, err) }
Exit(call) ==
    /\ failed' = call
    /\ mpc' = "exited"

\* helperPrivKeys, err := cryptoio.ReadPrivateKeyCollection(ctx, *privateKeyParamsURI)
\* and the branch on *expandParametersURI that follows it.
ReadPrivateKeyCollectionStep ==
    /\ mpc = "ReadPrivateKeyCollection"
    /\ steps' = Append(steps, "ReadPrivateKeyCollection")
    /\ \/ /\ helperPrivKeys' = "keys"
          /\ mpc' = IF flags.expandParametersURI # ""
                    THEN "ReadExpandParameters" ELSE "ReadDPFParameters"
          /\ UNCHANGED failed
       \/ /\ Exit("ReadPrivateKeyCollection")
          /\ UNCHANGED helperPrivKeys
    /\ UNCHANGED <<flags, loaded, expandParams, pipelineParams, histogram, notMainVars>>

\* expandParams, err = cryptoio.ReadExpandParameters(ctx, *expandParametersURI)
ReadExpandParametersStep ==
    /\ mpc = "ReadExpandParameters"
    /\ steps' = Append(steps, "ReadExpandParameters")
    /\ \/ \E file \in ExpandParameterFiles :
            /\ loaded' = [loaded EXCEPT !.expand = file]
            /\ expandParams' = file
            /\ mpc' = "GetDefaultDPFParameters"
            /\ UNCHANGED failed
       \/ /\ Exit("ReadExpandParameters")
          /\ UNCHANGED <<loaded, expandParams>>
    /\ UNCHANGED <<flags, helperPrivKeys, pipelineParams, histogram, notMainVars>>

\* sumParams, err := cryptoio.ReadDPFParameters(ctx, *sumParametersURI)
ReadDPFParametersStep ==
    /\ mpc = "ReadDPFParameters"
    /\ steps' = Append(steps, "ReadDPFParameters")
    /\ \/ \E file \in SumParameterFiles :
            /\ loaded' = [loaded EXCEPT !.sum = file]
            /\ mpc' = "ReadPrefixes"
            /\ UNCHANGED failed
       \/ /\ Exit("ReadDPFParameters")
          /\ UNCHANGED loaded
    /\ UNCHANGED <<flags, helperPrivKeys, expandParams, pipelineParams, histogram,
                   notMainVars>>

\* prefixes, err := cryptoio.ReadPrefixes(ctx, *prefixesURI)
ReadPrefixesStepNoExit ==
    /\ mpc = "ReadPrefixes"
    /\ steps' = Append(steps, "ReadPrefixes")
    /\ \/ \E file \in PrefixFiles :
            /\ loaded' = [loaded EXCEPT !.prefixes = file]
            /\ mpc' = "ConvertOldParamsToExpandParameter"
            /\ UNCHANGED failed
       \/ /\ failed' = "ReadPrefixes"
          /\ mpc' = "ConvertOldParamsToExpandParameter"
          /\ UNCHANGED loaded
    /\ UNCHANGED <<flags, helperPrivKeys, expandParams, pipelineParams, histogram,
                   notMainVars>>

ReadPrefixesStep ==
    /\ mpc = "ReadPrefixes"
    /\ steps' = Append(steps, "ReadPrefixes")
    /\ \/ \E file \in PrefixFiles :
            /\ loaded' = [loaded EXCEPT !.prefixes = file]
            /\ mpc' = "ConvertOldParamsToExpandParameter"
            /\ UNCHANGED failed
       \/ /\ Exit("ReadPrefixes")
          /\ UNCHANGED loaded
    /\ UNCHANGED <<flags, helperPrivKeys, expandParams, pipelineParams, histogram,
                   notMainVars>>

\* expandParams, err = dpfaggregator.ConvertOldParamsToExpandParameter(sumParams, prefixes)
ConvertOldParamsStep ==
    /\ mpc = "ConvertOldParamsToExpandParameter"
    /\ steps' = Append(steps, "ConvertOldParamsToExpandParameter")
    /\ \/ /\ expandParams' = ConvertOldParamsToExpandParameter(loaded.sum, loaded.prefixes)
          /\ mpc' = "GetDefaultDPFParameters"
          /\ UNCHANGED failed
       \/ /\ Exit("ConvertOldParamsToExpandParameter")
          /\ UNCHANGED expandParams
    /\ UNCHANGED <<flags, helperPrivKeys, loaded, pipelineParams, histogram, notMainVars>>

\* params, err := dpfaggregator.GetDefaultDPFParameters(int32(*keyBitSize))
\* expandParams.SumParameters = &pb.IncrementalDpfParameters{Params: params}
GetDefaultDPFParametersStepNoAssign ==
    /\ mpc = "GetDefaultDPFParameters"
    /\ steps' = Append(steps, "GetDefaultDPFParameters")
    /\ \/ /\ mpc' = "AggregatePartialReport"
          /\ UNCHANGED <<failed, expandParams>>
       \/ /\ Exit("GetDefaultDPFParameters")
          /\ UNCHANGED expandParams
    /\ UNCHANGED <<flags, helperPrivKeys, loaded, pipelineParams, histogram, notMainVars>>

GetDefaultDPFParametersStep ==
    /\ mpc = "GetDefaultDPFParameters"
    /\ steps' = Append(steps, "GetDefaultDPFParameters")
    /\ \/ /\ expandParams' = [expandParams EXCEPT
                 !.SumParameters = GetDefaultDPFParameters(flags.keyBitSize)]
          /\ mpc' = "AggregatePartialReport"
          /\ UNCHANGED failed
       \/ /\ Exit("GetDefaultDPFParameters")
          /\ UNCHANGED expandParams
    /\ UNCHANGED <<flags, helperPrivKeys, loaded, pipelineParams, histogram, notMainVars>>

\* The CombineParams literal of main.
CombineParamsNoSegmentLength(f) ==
    [DirectCombine |-> f.directCombine,
     SegmentLength |-> 0,
     Epsilon |-> f.epsilon,
     L1Sensitivity |-> f.l1Sensitivity]

CombineParams(f) ==
    [DirectCombine |-> f.directCombine,
     SegmentLength |-> f.segmentLength,
     Epsilon |-> f.epsilon,
     L1Sensitivity |-> f.l1Sensitivity]

\* The AggregatePartialReportParams literal of main.
AggregatePartialReportParams ==
    [built |-> TRUE,
     HelperPrivateKeys |-> helperPrivKeys,
     ExpandParams |-> expandParams,
     CombineParams |-> CombineParams(flags),
     UseEvaluationContext |-> (flags.expandParametersURI # "")]

\* pipeline := beam.NewPipeline(); dpfaggregator.AggregatePartialReport(scope, &params)
AggregatePartialReportStep ==
    /\ mpc = "AggregatePartialReport"
    /\ steps' = Append(steps, "AggregatePartialReport")
    /\ \/ /\ pipelineParams' = AggregatePartialReportParams
          /\ mpc' = "Run"
          /\ UNCHANGED failed
       \/ /\ Exit("AggregatePartialReport")
          /\ UNCHANGED pipelineParams
    /\ UNCHANGED <<flags, helperPrivKeys, loaded, expandParams, histogram, notMainVars>>

\* if err := beamx.Run(ctx, pipeline); err != nil { log.Exitf(...) }
RunStep ==
    /\ mpc = "Run"
    /\ steps' = Append(steps, "Run")
    /\ \/ /\ histogram' = "written"
          /\ mpc' = "done"
          /\ UNCHANGED failed
       \/ /\ Exit("Run")
          /\ UNCHANGED histogram
    /\ UNCHANGED <<flags, helperPrivKeys, loaded, expandParams, pipelineParams,
                   notMainVars>>

NextMain ==
    \/ ReadPrivateKeyCollectionStep
    \/ ReadExpandParametersStep
    \/ ReadDPFParametersStep
    \/ ReadPrefixesStep
    \/ ConvertOldParamsStep
    \/ GetDefaultDPFParametersStep
    \/ AggregatePartialReportStep
    \/ RunStep

(***************************************************************************)
(* dpfaggregator: expansion of DPF key halves and the two ways to combine  *)
(* the expanded vectors.                                                   *)
(***************************************************************************)
\* Bit length of the bucket domain in the model (--key_bit_size).
DomainBits == 2
\* Width of a vector element in the model (64 in the program).
ElementBits == 2
\* Most reports aggregated in one run.
MaxReports == 2
\* Longest --segment_length tried.
MaxSegmentLength == 5

ElementModulus == Pow2(ElementBits)

Domain == 0 .. (Pow2(DomainBits) - 1)

\* The pseudo-random mask both halves of a key pair expand from their seed.
Mask(seed, x) == (seed * (x + 1)) % ElementModulus

\* Evaluation of a key half at a domain point: the two halves of a pair sum
\* to payload at id and to zero elsewhere.
EvaluateKeyHalf(k, x) ==
    IF k.half = 1 THEN Mask(k.seed, x)
    ELSE ((IF x = k.id THEN k.payload ELSE 0) + ElementModulus - Mask(k.seed, x))
             % ElementModulus

\* The key halves helper h can hold: of point functions at the first or the
\* last bucket.
DPFKeyHalves(h) ==
    [id : {0, Pow2(DomainBits) - 1}, payload : {1, ElementModulus - 1},
     seed : {1, ElementModulus - 1}, half : {h}]

RECURSIVE SortedSeq(_)
SortedSeq(S) ==
    IF S = {} THEN <<>>
    ELSE LET m == CHOOSE x \in S : \A y \in S : x <= y
         IN  <<m>> \o SortedSeq(S \ {m})

\* The domain points under a set of one-bit prefixes, in increasing order.
BucketIDs(prefixSet) ==
    SortedSeq({x \in Domain : (x \div Pow2(DomainBits - 1)) \in prefixSet})

\* The expanded vector of a key half: one element per bucket.
ExpandDpfKey(k, prefixSet) ==
    LET buckets == BucketIDs(prefixSet)
    IN  [i \in 1 .. Len(buckets) |-> EvaluateKeyHalf(k, buckets[i])]

\* Element-wise sum of two vectors of one length.
AddVectors(v, w) == [i \in 1 .. Len(v) |-> (v[i] + w[i]) % ElementModulus]

\* Number of segments of a vector of length n cut into segments of length s.
SegmentCount(n, s) == IF s = 0 THEN 0 ELSE (n + s - 1) \div s

\* The segments of a vector, by segment index (from 0); the last may be short.
SplitVector(v, s) ==
    [j \in 0 .. (SegmentCount(Len(v), s) - 1) |->
        SubSeq(v, j * s + 1, IF (j + 1) * s < Len(v) THEN (j + 1) * s ELSE Len(v))]

\* The per-bucket totals a combined whole vector stands for.
DirectTotals(acc, prefixSet) ==
    LET buckets == BucketIDs(prefixSet)
    IN  [b \in Range(buckets) |->
            acc[CHOOSE i \in 1 .. Len(buckets) : buckets[i] = b]]

\* The per-bucket totals the combined segments stand for: element i of
\* segment j is bucket number j * segmentLength + i of the vector.
SegmentTotals(acc, s, prefixSet) ==
    LET buckets == BucketIDs(prefixSet)
        at == {<<j, i>> \in (DOMAIN acc) \X (1 .. Len(buckets)) : i <= Len(acc[j])}
    IN  [b \in {buckets[jp[1] * s + jp[2]] : jp \in at} |->
            LET jp == CHOOSE q \in at : buckets[q[1] * s + q[2]] = b
            IN  acc[jp[1]][jp[2]]]

CombineStart ==
    /\ flags \in [expandParametersURI : {""}, keyBitSize : {DomainBits},
                  directCombine : {TRUE},
                  segmentLength : 1 .. MaxSegmentLength,
                  epsilon : {0},
                  l1Sensitivity : {DefaultL1Sensitivity}]
    /\ \E n \in 1 .. MaxReports, h \in {1, 2} : keyHalves \in [1 .. n -> DPFKeyHalves(h)]
    /\ prefixes \in (SUBSET {0, 1}) \ {{}}
    /\ directAcc = <<>>
    /\ directIn = {}
    /\ segmentAcc = <<>>
    /\ segmentIn = {}

CombineIdle ==
    /\ keyHalves = <<>>
    /\ prefixes = {}
    /\ directAcc = <<>>
    /\ directIn = {}
    /\ segmentAcc = <<>>
    /\ segmentIn = {}

\* The run with --direct_combine=true adds report r's whole vector.
DirectCombineStep(r) ==
    /\ r \in (DOMAIN keyHalves) \ directIn
    /\ CombineParams([flags EXCEPT !.directCombine = TRUE]).DirectCombine
    /\ LET v == ExpandDpfKey(keyHalves[r], prefixes)
       IN  directAcc' = IF directIn = {} THEN v ELSE AddVectors(directAcc, v)
    /\ directIn' = directIn \cup {r}
    /\ UNCHANGED <<keyHalves, prefixes, segmentAcc, segmentIn, notCombineVars>>

\* The run with --direct_combine=false cuts report r's vector into segments
\* and adds each segment to the accumulator of its index.
SegmentCombineStep(r) ==
    /\ r \in (DOMAIN keyHalves) \ segmentIn
    /\ LET params == CombineParams([flags EXCEPT !.directCombine = FALSE])
           segments == SplitVector(ExpandDpfKey(keyHalves[r], prefixes),
                                   params.SegmentLength)
       IN  /\ ~params.DirectCombine
           /\ segmentAcc' =
                IF segmentIn = {} THEN segments
                ELSE [j \in DOMAIN segments |-> AddVectors(segmentAcc[j], segments[j])]
    /\ segmentIn' = segmentIn \cup {r}
    /\ UNCHANGED <<keyHalves, prefixes, directAcc, directIn, notCombineVars>>

NextCombine ==
    \/ \E r \in 1 .. MaxReports : DirectCombineStep(r)
    \/ \E r \in 1 .. MaxReports : SegmentCombineStep(r)

(***************************************************************************)
(* secretshare: additive sharing of integers.                              *)
(***************************************************************************)
\* Width of rawConversion.Value in the model (uint16 in the program).
ValueBits == 2
\* Width of a value share and of a sum in the model (uint32 in the program).
ShareBits == 3

ValueModulus == Pow2(ValueBits)

ShareModulus == Pow2(ShareBits)

\* SplitIntoIntShares(value) with the random share drawn.
SplitIntoIntShares(value, random) ==
    <<random % ShareModulus, (value + ShareModulus - (random % ShareModulus)) % ShareModulus>>

CombineIntShares(share1, share2) == (share1 + share2) % ShareModulus

(***************************************************************************)
(* elgamalencrypt, standardencrypt.  The group element g^x is written x    *)
(* (mod GroupOrder): multiplying elements adds, exponentiating multiplies. *)
(***************************************************************************)
\* Order of the group (a prime).
GroupOrder == 5

Exponents == 1 .. (GroupOrder - 1)

RECURSIVE BytesToInt(_)
BytesToInt(bytes) ==
    IF bytes = <<>> THEN 0
    ELSE bytes[Len(bytes)] + Pow2(ByteBits) * BytesToInt(SubSeq(bytes, 1, Len(bytes) - 1))

\* Hashing a conversion key into the group (never the identity); taken to be
\* collision-free on the keys of the model.
HashToGroup(key) == 1 + (BytesToInt(key) % (GroupOrder - 1))

\* The public key g^x of the private key x.
ElGamalPublicKey(priv) == priv % GroupOrder

\* (g^r, m * pub^r)
ElGamalEncrypt(m, pub, r) ==
    [c1 |-> r % GroupOrder, c2 |-> (m + r * pub) % GroupOrder]

\* c2 / c1^priv
ElGamalDecrypt(ct, priv) ==
    (ct.c2 + GroupOrder * GroupOrder - priv * ct.c1) % GroupOrder

\* The ciphertext raised to the secret and re-randomized under pub: a
\* ciphertext of m^secret.
ExponentiateOnCiphertext(ct, pub, secret, r) ==
    [c1 |-> (secret * ct.c1 + r) % GroupOrder,
     c2 |-> (secret * ct.c2 + r * pub) % GroupOrder]

\* m^secret
ExponentiateOnECPoint(m, secret) == (secret * m) % GroupOrder

StandardEncrypt(m, pub) == [to |-> pub.pair, payload |-> m]

StandardDecrypt(ct, priv) ==
    IF ct.to = priv.pair THEN Ok(ct.payload) ELSE Err("DecryptionError")

(***************************************************************************)
(* browsersimulator, conversion, conversionaggregator.                     *)
(***************************************************************************)
Helpers == {1, 2}

Peer(h) == 3 - h

\* The public half of a helper's ServerPrivateInfo.
ServerPublicInfo(priv) ==
    [ElGamalPublicKey |-> ElGamalPublicKey(priv.ElGamalPrivateKey),
     StandardPublicKey |-> [pair |-> priv.StandardPrivateKey.pair]]

\* genPartialReport: the two helpers' encrypted partial reports of one
\* conversion.  Helper h's report carries the conversion key encrypted under
\* the peer's ElGamal key, its byte share of the key and its share of the
\* value, all encrypted under h's standard public key; both carry reportID.
GenPartialReports(c, reportID, pubInfo, rnd) ==
    LET keyShares == SplitIntoByteShares(c.Key, rnd.bytes)
        valueShares == SplitIntoIntShares(c.Value, rnd.int)
        report(h) ==
            [ReportID |-> reportID,
             EncryptedKey |-> ElGamalEncrypt(HashToGroup(c.Key),
                                             pubInfo[Peer(h)].ElGamalPublicKey, rnd.exp[h]),
             KeyShare |-> keyShares[h],
             ValueShare |-> valueShares[h]]
    IN  [h \in Helpers |->
            [ReportID |-> reportID,
             Ciphertext |-> StandardEncrypt(report(h), pubInfo[h].StandardPublicKey)]]

\* conversion.ExponentiateKey on one report.
ExponentiateKey(report, secret, peerPub, r) ==
    [ReportID |-> report.ReportID,
     ExponentiatedKey |-> ExponentiateOnCiphertext(report.EncryptedKey, peerPub, secret, r)]

\* conversion.RekeyByAggregationID on one report: the peer's exponentiated
\* key is decrypted and raised to the own secret.
RekeyByAggregationID(peerKey, report, elGamalPriv, secret) ==
    [ReportID |-> report.ReportID,
     AggID |-> ExponentiateOnECPoint(ElGamalDecrypt(peerKey.ExponentiatedKey, elGamalPriv),
                                     secret),
     KeyShare |-> report.KeyShare,
     ValueShare |-> report.ValueShare]

\* conversionaggregator.AggregateDataShare, per aggregation ID: the key share
\* of the report with the least report ID, the sum of the value shares and
\* the number of reports.
SingleAggregation(rec) ==
    [ReportID |-> rec.ReportID, KeyShare |-> rec.KeyShare,
     PartialSum |-> rec.ValueShare, PartialCount |-> 1]

MergeAccumulators(x, y) ==
    [ReportID |-> IF x.ReportID <= y.ReportID THEN x.ReportID ELSE y.ReportID,
     KeyShare |-> IF x.ReportID <= y.ReportID THEN x.KeyShare ELSE y.KeyShare,
     PartialSum |-> (x.PartialSum + y.PartialSum) % ShareModulus,
     PartialCount |-> x.PartialCount + y.PartialCount]

AddInput(acc, rec) ==
    IF rec.AggID \in DOMAIN acc
    THEN [acc EXCEPT ![rec.AggID] = MergeAccumulators(@, SingleAggregation(rec))]
    ELSE acc @@ (rec.AggID :> SingleAggregation(rec))

NoAggregation == [ReportID |-> 0, KeyShare |-> <<>>, PartialSum |-> 0, PartialCount |-> 0]

\* conversionaggregator.MergeAggregation: one result per aggregation ID of
\* either partial aggregation.
MergeAggregation(pAgg1, pAgg2) ==
    [id \in (DOMAIN pAgg1) \cup (DOMAIN pAgg2) |->
        LET p1 == IF id \in DOMAIN pAgg1 THEN pAgg1[id] ELSE NoAggregation
            p2 == IF id \in DOMAIN pAgg2 THEN pAgg2[id] ELSE NoAggregation
            key == CombineByteShares(p1.KeyShare, p2.KeyShare)
        IN  [err |-> key.err,
             ConversionKey |-> key.val,
             Sum |-> CombineIntShares(p1.PartialSum, p2.PartialSum),
             Count |-> p1.PartialCount + p2.PartialCount]]

\* mergeReportFn once both iterators gave a report.
MergeReportFnSameShare(pr1, pr2) ==
    LET key == CombineByteShares(pr1.KeyShare, pr1.KeyShare)
    IN  IF key.err # "nil" THEN key
        ELSE Ok([Key |-> key.val,
                 Value |-> CombineIntShares(pr1.ValueShare, pr2.ValueShare) % ValueModulus])

MergeReportFn(pr1, pr2) ==
    LET key == CombineByteShares(pr1.KeyShare, pr2.KeyShare)
    IN  IF key.err # "nil" THEN key
        ELSE Ok([Key |-> key.val,
                 Value |-> CombineIntShares(pr1.ValueShare, pr2.ValueShare) % ValueModulus])

(***************************************************************************)
(* TestSplitAndEncryption and testAggregationPipeline.                     *)
(***************************************************************************)
\* Most conversions in one run.
MaxConversions == 2

\* The report IDs the simulator can draw: as many as there are conversions.
ReportIDs == 1 .. Len(conversions)

\* The conversion keys of the model: the one-byte strings 0 and 1.
ConversionKeys == {<<0>>, <<1>>}

IDs(collection) == {x.ReportID : x \in collection}

AllSplit == splitIn = DOMAIN conversions

NotResult == [done |-> FALSE, results |-> <<>>]

\* pubInfo1, pubInfo2
PublicInfo == [h \in Helpers |-> ServerPublicInfo(serverInfo[h])]

\* The helpers' key material a run can start with: createServerInfo.
ServerInfos(elGamalKeys, secrets) ==
    [Helpers -> [ElGamalPrivateKey : elGamalKeys, Secret : secrets,
                 StandardPrivateKey : [pair : Helpers]]]

\* The lists of one to n conversions with the given values.
Batches(n, values) ==
    UNION { [1 .. l -> [Key : ConversionKeys, Value : values]] : l \in 1 .. n }

PipeStart(batches, infos, pools) ==
    /\ conversions \in batches
    /\ serverInfo \in infos
    /\ \A h \in Helpers : serverInfo[h].StandardPrivateKey.pair = h
    /\ entropy = pools
    /\ splitIn = {}
    /\ ePr = [h \in Helpers |-> {}]
    /\ pr = [h \in Helpers |-> {}]
    /\ idKey = [h \in Helpers |-> {}]
    /\ rekeyed = [h \in Helpers |-> {}]
    /\ aggIn = [h \in Helpers |-> {}]
    /\ pAgg = [h \in Helpers |-> <<>>]
    /\ got = NotResult
    /\ merged = <<>>
    /\ origin = <<>>
    /\ perr = "nil"

PipeIdle ==
    /\ conversions = <<>>
    /\ serverInfo = <<>>
    /\ entropy = <<>>
    /\ splitIn = {}
    /\ ePr = <<>>
    /\ pr = <<>>
    /\ idKey = <<>>
    /\ rekeyed = <<>>
    /\ aggIn = <<>>
    /\ pAgg = <<>>
    /\ got = NotResult
    /\ merged = <<>>
    /\ origin = <<>>
    /\ perr = "idle"

\* splitRawConversion(scope, conversions, pubInfo1, pubInfo2) on conversion i,
\* with a fresh report ID.
SplitStep(i) ==
    /\ perr = "nil"
    /\ i \in (DOMAIN conversions) \ splitIn
    /\ \E id \in ReportIDs \ IDs(ePr[1] \cup ePr[2]),
          rb \in [1 .. Len(conversions[i].Key) -> entropy.bytes],
          ri \in entropy.ints, e1 \in entropy.exps, e2 \in entropy.exps :
            LET reports == GenPartialReports(conversions[i], id, PublicInfo,
                               [bytes |-> rb, int |-> ri, exp |-> <<e1, e2>>])
            IN  /\ ePr' = [h \in Helpers |-> ePr[h] \cup {reports[h]}]
                /\ origin' = origin @@ (id :> i)
    /\ splitIn' = splitIn \cup {i}
    /\ UNCHANGED <<conversions, serverInfo, entropy, pr, idKey, rekeyed, aggIn, pAgg,
                   got, merged, perr, notPipeVars>>

\* conversion.DecryptPartialReport(scope, ePr_h, privInfo_h.StandardPrivateKey)
\* on one encrypted report.
DecryptStep(h) ==
    /\ perr = "nil"
    /\ \E e \in ePr[h] :
         /\ e.ReportID \notin IDs(pr[h])
         /\ LET d == StandardDecrypt(e.Ciphertext, serverInfo[h].StandardPrivateKey)
            IN  IF d.err = "nil"
                THEN pr' = [pr EXCEPT ![h] = @ \cup {d.val}] /\ UNCHANGED perr
                ELSE perr' = d.err /\ UNCHANGED pr
    /\ UNCHANGED <<conversions, serverInfo, entropy, splitIn, ePr, idKey, rekeyed, aggIn,
                   pAgg, got, merged, origin, notPipeVars>>

\* ExponentiateKey re-randomizing under the helper's own ElGamal public key.
ExponentiateStepOwnKey(h) ==
    /\ perr = "nil"
    /\ \E report \in pr[h], r \in entropy.exps :
         /\ report.ReportID \notin IDs(idKey[h])
         /\ idKey' = [idKey EXCEPT ![h] = @ \cup
                {ExponentiateKey(report, serverInfo[h].Secret,
                                 PublicInfo[h].ElGamalPublicKey, r)}]
    /\ UNCHANGED <<conversions, serverInfo, entropy, splitIn, ePr, pr, rekeyed, aggIn,
                   pAgg, got, merged, origin, perr, notPipeVars>>

\* conversion.ExponentiateKey(scope, pr_h, privInfo_h.Secret, pubInfo_peer.ElGamalPublicKey)
\* on one decrypted report.
ExponentiateStep(h) ==
    /\ perr = "nil"
    /\ \E report \in pr[h], r \in entropy.exps :
         /\ report.ReportID \notin IDs(idKey[h])
         /\ idKey' = [idKey EXCEPT ![h] = @ \cup
                {ExponentiateKey(report, serverInfo[h].Secret,
                                 PublicInfo[Peer(h)].ElGamalPublicKey, r)}]
    /\ UNCHANGED <<conversions, serverInfo, entropy, splitIn, ePr, pr, rekeyed, aggIn,
                   pAgg, got, merged, origin, perr, notPipeVars>>

\* RekeyByAggregationID fed with the encrypted key of the helper's own
\* report instead of a key exponentiated by the peer.
RekeyStepWithoutPeer(h) ==
    /\ perr = "nil"
    /\ \E report \in pr[h] :
         /\ report.ReportID \notin IDs(rekeyed[h])
         /\ rekeyed' = [rekeyed EXCEPT ![h] = @ \cup
                {RekeyByAggregationID([ReportID |-> report.ReportID,
                                       ExponentiatedKey |-> report.EncryptedKey],
                                      report, serverInfo[h].ElGamalPrivateKey,
                                      serverInfo[h].Secret)}]
    /\ UNCHANGED <<conversions, serverInfo, entropy, splitIn, ePr, pr, idKey, aggIn,
                   pAgg, got, merged, origin, perr, notPipeVars>>

\* conversion.RekeyByAggregationID(scope, idKey_peer, pr_h,
\*     privInfo_h.ElGamalPrivateKey, privInfo_h.Secret) on one report ID that
\* both collections hold.
RekeyStep(h) ==
    /\ perr = "nil"
    /\ \E peerKey \in idKey[Peer(h)], report \in pr[h] :
         /\ peerKey.ReportID = report.ReportID
         /\ report.ReportID \notin IDs(rekeyed[h])
         /\ rekeyed' = [rekeyed EXCEPT ![h] = @ \cup
                {RekeyByAggregationID(peerKey, report, serverInfo[h].ElGamalPrivateKey,
                                      serverInfo[h].Secret)}]
    /\ UNCHANGED <<conversions, serverInfo, entropy, splitIn, ePr, pr, idKey, aggIn,
                   pAgg, got, merged, origin, perr, notPipeVars>>

\* conversionaggregator.AggregateDataShare(scope, idKeyShare_h, aggData_h,
\*     true, PrivacyParams{}) adding one report.
AggregateStep(h) ==
    /\ perr = "nil"
    /\ \E rec \in rekeyed[h] :
         /\ rec.ReportID \notin aggIn[h]
         /\ pAgg' = [pAgg EXCEPT ![h] = AddInput(@, rec)]
         /\ aggIn' = [aggIn EXCEPT ![h] = @ \cup {rec.ReportID}]
    /\ UNCHANGED <<conversions, serverInfo, entropy, splitIn, ePr, pr, idKey, rekeyed,
                   got, merged, origin, perr, notPipeVars>>

\* Everything upstream of the partial aggregations is complete.
AllAggregated ==
    /\ AllSplit
    /\ \A h \in Helpers : aggIn[h] = IDs(ePr[h])

\* The conversions of one bucket key.
WithKey(convs, key) == {i \in DOMAIN convs : convs[i].Key = key}

RECURSIVE SumValues(_, _)
SumValues(convs, indices) ==
    IF indices = {} THEN 0
    ELSE LET i == CHOOSE j \in indices : TRUE
         IN  convs[i].Value + SumValues(convs, indices \ {i})

\* createConversions with the expected Count equal to the number of
\* conversions.
WantCountOnce(convs) ==
    { [ConversionKey |-> key,
       Sum |-> SumValues(convs, WithKey(convs, key)) % ShareModulus,
       Count |-> Cardinality(WithKey(convs, key))] :
      key \in {convs[i].Key : i \in DOMAIN convs} }

\* The expected results createConversions builds next to the conversions: per
\* key, Sum: uint32(sum) and Count: int64(sum * 2), sum running over the
\* conversions of the key (each of value 1 there).
Want(convs) ==
    { [ConversionKey |-> key,
       Sum |-> SumValues(convs, WithKey(convs, key)) % ShareModulus,
       Count |-> Cardinality(WithKey(convs, key)) * 2] :
      key \in {convs[i].Key : i \in DOMAIN convs} }

\* MergeAggregation given the partial aggregation of helper 1 twice.
MergeStepOneHelper ==
    /\ perr = "nil"
    /\ AllAggregated
    /\ ~got.done
    /\ LET results == MergeAggregation(pAgg[1], pAgg[1])
       IN  IF \E id \in DOMAIN results : results[id].err # "nil"
           THEN /\ perr' = "LengthMismatch"
                /\ UNCHANGED got
           ELSE /\ got' = [done |-> TRUE, results |-> results]
                /\ UNCHANGED perr
    /\ UNCHANGED <<conversions, serverInfo, entropy, splitIn, ePr, pr, idKey, rekeyed,
                   aggIn, pAgg, merged, origin, notPipeVars>>

\* got := conversionaggregator.MergeAggregation(scope, pAgg1, pAgg2)
MergeStep ==
    /\ perr = "nil"
    /\ AllAggregated
    /\ ~got.done
    /\ LET results == MergeAggregation(pAgg[1], pAgg[2])
       IN  IF \E id \in DOMAIN results : results[id].err # "nil"
           THEN /\ perr' = "LengthMismatch"
                /\ UNCHANGED got
           ELSE /\ got' = [done |-> TRUE, results |-> results]
                /\ UNCHANGED perr
    /\ UNCHANGED <<conversions, serverInfo, entropy, splitIn, ePr, pr, idKey, rekeyed,
                   aggIn, pAgg, merged, origin, notPipeVars>>

\* Both decrypted collections are complete: CoGroupByKey can emit.
AllDecrypted ==
    /\ AllSplit
    /\ \A h \in Helpers : IDs(pr[h]) = IDs(ePr[h])

\* joined := beam.CoGroupByKey(scope, prDecrypted1, prDecrypted2) and
\* mergeReportFn on the group of one report ID.
MergeReportStep(id) ==
    /\ perr = "nil"
    /\ AllDecrypted
    /\ id \in (IDs(pr[1]) \cup IDs(pr[2])) \ DOMAIN merged
    /\ LET prIter1 == {x \in pr[1] : x.ReportID = id}
           prIter2 == {x \in pr[2] : x.ReportID = id}
       IN  IF prIter1 = {}
           THEN perr' = "missing partial report for helper 1" /\ UNCHANGED merged
           ELSE IF prIter2 = {}
           THEN perr' = "missing partial report for helper 2" /\ UNCHANGED merged
           ELSE \E pr1 \in prIter1, pr2 \in prIter2 :
                  LET c == MergeReportFn(pr1, pr2)
                  IN  IF c.err # "nil"
                      THEN perr' = c.err /\ UNCHANGED merged
                      ELSE merged' = merged @@ (id :> c.val) /\ UNCHANGED perr
    /\ UNCHANGED <<conversions, serverInfo, entropy, splitIn, ePr, pr, idKey, rekeyed,
                   aggIn, pAgg, got, origin, notPipeVars>>

\* TestSplitAndEncryption
NextSplit ==
    \/ \E i \in DOMAIN conversions : SplitStep(i)
    \/ \E h \in Helpers : DecryptStep(h)
    \/ \E id \in ReportIDs : MergeReportStep(id)

\* testAggregationPipeline up to the aggregation IDs
NextJoin ==
    \/ \E i \in DOMAIN conversions : SplitStep(i)
    \/ \E h \in Helpers : DecryptStep(h)
    \/ \E h \in Helpers : ExponentiateStep(h)
    \/ \E h \in Helpers : RekeyStep(h)

\* testAggregationPipeline
NextPipeline ==
    \/ \E i \in DOMAIN conversions : SplitStep(i)
    \/ \E h \in Helpers : DecryptStep(h)
    \/ \E h \in Helpers : ExponentiateStep(h)
    \/ \E h \in Helpers : RekeyStep(h)
    \/ \E h \in Helpers : AggregateStep(h)
    \/ MergeStep

NextShare ==
    \/ TestSplit1
    \/ TestSplit2
    \/ TestCompare
    \/ TestCombine

(***************************************************************************)
(* Properties.                                                             *)
(***************************************************************************)
BothSplit == split1 # <<>> /\ split2 # <<>>

\* C1: for every byte string a, combining the two shares returned by
\* SplitIntoByteShares(a) with CombineByteShares succeeds (no error) and
\* returns exactly a, whichever random first share was drawn.
C1_SplitCombineRoundTrip ==
    /\ tpc = "done" => combine = Ok(a)
    /\ combine.err \in {"unset", "nil"}
    /\ split1 # <<>> => Len(split1[1]) = Len(a) /\ Len(split1[2]) = Len(a)

\* C1 witness: a nonempty input was split with a share that is not the
\* input itself and combined back.
C1_Witness ==
    /\ tpc = "done"
    /\ Len(a) = MaxLen
    /\ split1[2] # a
    /\ split1[1] # split1[2]
    /\ combine.val = a

C8_FailureAborts ==
    /\ (mpc = "exited") <=> (failed # "none")
    /\ failed # "none" =>
         /\ steps # <<>>
         /\ steps[Len(steps)] = failed
         /\ "Run" \in Range(steps) => failed = "Run"
         /\ histogram = "absent"
    /\ histogram = "written" => failed = "none" /\ mpc = "done"

\* C8 witness: the conversion of the legacy parameters failed after three
\* successful reads, and the run stopped there.
C8_Witness ==
    /\ failed = "ConvertOldParamsToExpandParameter"
    /\ mpc = "exited"
    /\ Len(steps) = 4
    /\ ~pipelineParams.built

LegacyCalls == {"ReadDPFParameters", "ReadPrefixes", "ConvertOldParamsToExpandParameter"}

\* C10: the expansion parameters given to AggregatePartialReport come from
\* exactly one source (the expand parameter file iff expand_parameters_uri is
\* non-empty, else the converted legacy parameters, whose files are read only
\* then), UseEvaluationContext is true iff expand_parameters_uri is non-empty,
\* and their SumParameters are the defaults for key_bit_size.
C10_OneParameterSource ==
    /\ "ReadExpandParameters" \in Range(steps) => flags.expandParametersURI # ""
    /\ Range(steps) \cap LegacyCalls # {} => flags.expandParametersURI = ""
    /\ pipelineParams.built =>
         LET source == IF flags.expandParametersURI # "" THEN loaded.expand
                       ELSE ConvertOldParamsToExpandParameter(loaded.sum, loaded.prefixes)
             given == pipelineParams.ExpandParams
         IN  /\ pipelineParams.UseEvaluationContext = (flags.expandParametersURI # "")
             /\ given.Levels = source.Levels
             /\ given.Prefixes = source.Prefixes
             /\ given.PreviousLevel = source.PreviousLevel
             /\ given.SumParameters = [i \in 1 .. flags.keyBitSize |-> i]
             /\ IF flags.expandParametersURI # ""
                THEN "ReadExpandParameters" \in Range(steps)
                ELSE LegacyCalls \subseteq Range(steps)

\* C10 witness: the legacy path was taken with sum parameters that differ
\* from the defaults, and the pipeline was built.
C10_Witness ==
    /\ pipelineParams.built
    /\ flags.expandParametersURI = ""
    /\ loaded.sum = <<2, 3>>
    /\ loaded.prefixes # <<>>
    /\ flags.keyBitSize = 1

CombineDone ==
    /\ directIn = DOMAIN keyHalves
    /\ segmentIn = DOMAIN keyHalves

\* C7: for the same DPF key halves, prefixes and domain, the direct combine
\* and the segmented combine give identical per-bucket totals, for every
\* segment length of at least 1 (also one that does not divide the vector
\* length or exceeds it), in whatever order the reports are added.
C7_DirectEqualsSegmented ==
    CombineDone =>
        DirectTotals(directAcc, prefixes)
            = SegmentTotals(segmentAcc, flags.segmentLength, prefixes)

\* C7 witness: two reports combined both ways with a segment length that does
\* not divide the vector length, leaving a short last segment.
C7_Witness ==
    /\ CombineDone
    /\ Len(keyHalves) = 2
    /\ flags.segmentLength > 1
    /\ Len(directAcc) % flags.segmentLength # 0
    /\ flags.segmentLength < Len(directAcc)
    /\ \E b \in DOMAIN DirectTotals(directAcc, prefixes) :
           DirectTotals(directAcc, prefixes)[b] # 0

AllMerged == AllDecrypted /\ DOMAIN merged = IDs(pr[1]) \cup IDs(pr[2])

\* How often x occurs among the values of the function or list f.
CountIn(f, x) == Cardinality({k \in DOMAIN f : f[k] = x})

\* C2: after the split and each helper's decryption with its own standard
\* private key, every report ID has exactly one partial report at helper 1
\* and one at helper 2, no step fails, and mergeReportFn over the co-grouped
\* reports gives back exactly the (key, value) of every conversion: the
\* merged conversions equal the input as multisets.
C2_SplitDecryptMergeRoundTrip ==
    /\ perr = "nil"
    /\ \A h \in Helpers :
         /\ Cardinality(ePr[h]) = Cardinality(splitIn)
         /\ Cardinality(IDs(ePr[h])) = Cardinality(splitIn)
         /\ Cardinality(pr[h]) = Cardinality(IDs(pr[h]))
         /\ IDs(pr[h]) \subseteq IDs(ePr[h])
    /\ IDs(ePr[1]) = IDs(ePr[2])
    /\ \A id \in DOMAIN merged : merged[id] = conversions[origin[id]]
    /\ AllMerged =>
         \A c \in Range(conversions) \cup Range(merged) :
             CountIn(merged, c) = CountIn(conversions, c)

\* C2 witness: two conversions with one key and one value (so only the
\* report IDs tell their reports apart) were split with different shares,
\* decrypted and merged.
C2_Witness ==
    /\ AllMerged
    /\ Len(conversions) = 2
    /\ conversions[1] = conversions[2]
    /\ conversions[1].Value = ValueModulus - 1
    /\ \E x \in pr[1], y \in pr[1] :
         /\ x.ReportID # y.ReportID
         /\ x.KeyShare # y.KeyShare
         /\ x.ValueShare = ShareModulus - 1

\* The bucket key of the conversion a report ID was drawn for.
KeyOf(id) == conversions[origin[id]].Key

\* C5: the aggregation IDs the two helpers derive (ExponentiateKey by one,
\* RekeyByAggregationID with its own ElGamal private key and secret by the
\* other) coincide for two reports, at the same or at different helpers, if
\* and only if the reports' conversions have the same bucket key; in
\* particular both helpers give one report the same aggregation ID.
C5_SameAggIDIffSameKey ==
    \A x \in rekeyed[1] \cup rekeyed[2], y \in rekeyed[1] \cup rekeyed[2] :
        (x.AggID = y.AggID) <=> (KeyOf(x.ReportID) = KeyOf(y.ReportID))

JoinDone ==
    /\ AllSplit
    /\ \A h \in Helpers : IDs(rekeyed[h]) = IDs(ePr[h])

\* C5 witness: the join of two conversions is complete at helpers with
\* different ElGamal keys and secrets, the exponentiated keys were
\* re-randomized with different draws, and there are both two reports of one
\* key and two reports of different keys.
C5_Witness ==
    /\ JoinDone
    /\ Len(conversions) = 2
    /\ serverInfo[1].ElGamalPrivateKey # serverInfo[2].ElGamalPrivateKey
    /\ serverInfo[1].Secret # serverInfo[2].Secret
    /\ \E x \in idKey[1], y \in idKey[1] :
         x.ExponentiatedKey.c1 # y.ExponentiatedKey.c1
    /\ \E x \in rekeyed[1], y \in rekeyed[2] :
         x.ReportID # y.ReportID /\ x.AggID = y.AggID

\* The stages of report id at helper h.
Decrypted(h, id) == id \in IDs(pr[h])

Exponentiated(h, id) == id \in IDs(idKey[h])

ReceivedPeerExponentiated(h, id) == id \in IDs(idKey[Peer(h)])

Rekeyed(h, id) == id \in IDs(rekeyed[h])

\* No stage of a report is ever undone.
StagesOnlyGrow ==
    \A h \in Helpers :
        /\ pr[h] \subseteq pr'[h]
        /\ idKey[h] \subseteq idKey'[h]
        /\ rekeyed[h] \subseteq rekeyed'[h]

\* What a helper hands to its peer: the report ID and an ElGamal ciphertext,
\* under the peer's key, of the bucket key's group element raised to the
\* sender's secret.
OnlyExponentiatedKeysExchanged ==
    \A h \in Helpers : \A m \in idKey[h] :
        /\ DOMAIN m = {"ReportID", "ExponentiatedKey"}
        /\ ElGamalDecrypt(m.ExponentiatedKey, serverInfo[Peer(h)].ElGamalPrivateKey)
             = ExponentiateOnECPoint(HashToGroup(KeyOf(m.ReportID)), serverInfo[h].Secret)

\* The dependencies of the join: a report is exponentiated or rekeyed at a
\* helper only once decrypted there, and rekeyed only once the peer's
\* exponentiated key is there.
JoinDependencies ==
    \A h \in Helpers : \A id \in ReportIDs :
        /\ Exponentiated(h, id) => Decrypted(h, id)
        /\ Rekeyed(h, id) => Decrypted(h, id) /\ ReceivedPeerExponentiated(h, id)
        /\ ReceivedPeerExponentiated(h, id) => Decrypted(Peer(h), id)

\* C9 as stated: the four stages of a report at one helper are passed in
\* the one order Decrypted, Exponentiated, ReceivedPeerExponentiated, Rekeyed.
C9_LinearStageOrder ==
    \A h \in Helpers : \A id \in ReportIDs :
        /\ Exponentiated(h, id) => Decrypted(h, id)
        /\ ReceivedPeerExponentiated(h, id) => Exponentiated(h, id)
        /\ Rekeyed(h, id) => ReceivedPeerExponentiated(h, id)

\* C9: a helper rekeys a report only after it decrypted its own partial
\* report and received the peer's exponentiated key, which the peer sent
\* only after decrypting and exponentiating its half; the helper's own
\* exponentiation is ordered after its decryption only.  The helpers
\* exchange exponentiated keys only, and when both helpers keep taking
\* steps every report is eventually rekeyed at both.
C9_JoinOrderAndProgress ==
    /\ [](JoinDependencies /\ OnlyExponentiatedKeysExchanged)
    /\ [][StagesOnlyGrow]_vars
    /\ <>[]JoinDone

\* C9 witness: a helper has rekeyed a report that it has not exponentiated
\* itself, the peer's exponentiated key having arrived first.
C9_Witness ==
    \E h \in Helpers : \E id \in ReportIDs :
        /\ Rekeyed(h, id)
        /\ ~Exponentiated(h, id)
        /\ Exponentiated(Peer(h), id)

\* The keys of the input conversions.
InputKeys == {conversions[i].Key : i \in DOMAIN conversions}

\* The merged result holds exactly one entry per bucket key of the input.
OneEntryPerKey ==
    /\ Cardinality(DOMAIN got.results) = Cardinality(InputKeys)
    /\ {got.results[id].ConversionKey : id \in DOMAIN got.results} = InputKeys

\* C3 as stated: whatever the order of the per-record transforms and of the
\* per-key reductions, the merged result has one entry per bucket key and its
\* Sum is the sum of the values of the conversions of that key.
C3_ExactSums ==
    got.done =>
        /\ OneEntryPerKey
        /\ \A id \in DOMAIN got.results :
             got.results[id].Sum =
                 SumValues(conversions, WithKey(conversions, got.results[id].ConversionKey))

\* C3: whatever the order of the per-record transforms and of the per-key
\* reductions, no step fails, the merged result has one entry per bucket key
\* and its Sum is the sum of the values of the conversions of that key
\* reduced modulo the share modulus (the width of Sum), hence the exact sum
\* whenever that is below the modulus.
C3_SumsModuloShareModulus ==
    /\ perr = "nil"
    /\ got.done =>
        /\ OneEntryPerKey
        /\ \A id \in DOMAIN got.results :
             LET total == SumValues(conversions,
                              WithKey(conversions, got.results[id].ConversionKey))
             IN  /\ got.results[id].Sum = total % ShareModulus
                 /\ total < ShareModulus => got.results[id].Sum = total

\* C3 witness: the pipeline has merged conversions of one key whose values
\* add up to the share modulus or more, so that Sum wrapped.
C3_Witness ==
    /\ got.done
    /\ \E id \in DOMAIN got.results :
         /\ SumValues(conversions, WithKey(conversions, got.results[id].ConversionKey))
              >= ShareModulus
         /\ got.results[id].Sum < ValueModulus - 1

\* C4: in the merged result the Count of every bucket key is the Count
\* createConversions expects, twice the number of conversions of that key:
\* one partial report at either helper per conversion.
C4_CountIsTwiceConversions ==
    got.done =>
        {[ConversionKey |-> got.results[id].ConversionKey,
          Count |-> got.results[id].Count] : id \in DOMAIN got.results}
      = {[ConversionKey |-> w.ConversionKey, Count |-> w.Count] : w \in Want(conversions)}

\* C4 witness: two conversions of one key went through both helpers and
\* were merged into one entry of Count 4.
C4_Witness ==
    /\ got.done
    /\ Len(conversions) = 2
    /\ conversions[1].Key = conversions[2].Key
    /\ \E id \in DOMAIN got.results : got.results[id].Count = 4

(***************************************************************************)
(* Specifications.                                                         *)
(***************************************************************************)
ShareInit == ShareStart /\ MainIdle /\ CombineIdle /\ PipeIdle

SpecShare == ShareInit /\ [][NextShare]_vars

MainInit == MainStart /\ ShareIdle /\ CombineIdle /\ PipeIdle

SpecMain == MainInit /\ [][NextMain]_vars

CombineInit == CombineStart /\ MainNotStarted /\ ShareIdle /\ PipeIdle

SpecCombine == CombineInit /\ [][NextCombine]_vars

\* TestSplitAndEncryption: every byte share, the extreme integer shares, one
\* ElGamal draw.
SplitInit ==
    /\ PipeStart(Batches(MaxConversions, {1, 2, ValueModulus - 1}),
                 ServerInfos({2}, {3}),
                 [bytes |-> Byte, ints |-> {0, 1, ShareModulus - 1}, exps |-> {1}])
    /\ ShareIdle /\ MainIdle /\ CombineIdle

SpecSplit == SplitInit /\ [][NextSplit]_vars

\* The private join of testAggregationPipeline: helper 2 with the ElGamal
\* key of helper 1 or another one, two secrets per helper, two draws for
\* every encryption and re-randomization.
JoinInit ==
    /\ PipeStart(Batches(MaxConversions, {1}),
                 {info \in ServerInfos({2, 3}, {2, 3}) : info[1].ElGamalPrivateKey = 2},
                 [bytes |-> {0}, ints |-> {0}, exps |-> {1, 2}])
    /\ ShareIdle /\ MainIdle /\ CombineIdle

SpecJoin == JoinInit /\ [][NextJoin]_vars

\* testAggregationPipeline on the lists of up to MaxConversions conversions
\* of the least and the greatest value and on three conversions of the
\* greatest value for one key, with the extreme integer shares and one byte
\* share.
OverflowBatch == [i \in 1 .. 3 |-> [Key |-> <<0>>, Value |-> ValueModulus - 1]]

PipelineInit ==
    /\ PipeStart(Batches(MaxConversions, {1, ValueModulus - 1}) \cup {OverflowBatch},
                 ServerInfos({2}, {3}),
                 [bytes |-> {1}, ints |-> {1, ShareModulus - 1}, exps |-> {1}])
    /\ ShareIdle /\ MainIdle /\ CombineIdle

SpecPipeline == PipelineInit /\ [][NextPipeline]_vars

\* The same join with one key set and one draw, every transform of either
\* helper being scheduled as long as it has input.
FairJoinInit ==
    /\ PipeStart(Batches(MaxConversions, {1}),
                 ServerInfos({2}, {3}),
                 [bytes |-> {0}, ints |-> {0}, exps |-> {1}])
    /\ ShareIdle /\ MainIdle /\ CombineIdle

FairSpecJoin ==
    /\ FairJoinInit
    /\ [][NextJoin]_vars
    /\ WF_vars(\E i \in DOMAIN conversions : SplitStep(i))
    /\ \A h \in Helpers :
         WF_vars(DecryptStep(h) \/ ExponentiateStep(h) \/ RekeyStep(h))

=============================================================================
